---- MODULE Spec2Model ----
(***************************************************************************)
(* HomeScreen of app/index.tsx: the screen's React state, the two handlers *)
(* loadFileFromAsset and openFileWithIntent, and the promises they await   *)
(* (asset.downloadAsync, IntentLauncher.startActivityAsync).               *)
(*                                                                         *)
(* A handler runs to its first await in one step; the continuation after   *)
(* the await runs in one step when the awaited promise settles.  React     *)
(* commits the batched state updates of a step before the next event is    *)
(* dispatched, so a handler's closure reads the state of the step before.  *)
(***************************************************************************)
EXTENDS Integers, Sequences, FiniteSets, TLC

\* ------------------------------------------------------------------ bounds

\* Calls of IntentLauncher.startActivityAsync recorded in one behaviour.
MaxCalls == 2

\* ------------------------------------------------------------- JS values

JsNull == "<null>"
JsUndefined == "<undefined>"

\* Truthy with the empty string taken for a value.
Truthy_EmptyIsValue(v) == v \notin {JsNull, JsUndefined}

\* JavaScript truthiness of a string-or-null-or-undefined value
\* (asset.localUri || asset.uri, !fileUri, !fileWithUri.contentUri).
Truthy(v) == v \notin {JsNull, JsUndefined, ""}

\* useState<FileSystem.File | null>(null)
Null == [null |-> TRUE]

\* An Error as the catch blocks read it: error.message and
\* JSON.stringify(error, null, 2).
Err(msg) == [message |-> msg, json |-> "{}"]

NoError == [message |-> JsUndefined, json |-> JsUndefined]

\* ------------------------------------------------- external collaborators

Platforms == {"android", "ios", "web"}

RemoteUri == "http://10.0.2.2:8081/assets/pdf/sample.pdf"
LocalUri == "file:///cache/ExponentAsset-sample.pdf"

\* What Asset.fromModule(require('../assets/pdf/sample.pdf')) can return:
\* uri is a string, localUri is null until the asset is cached.
InitialAssets == [uri : {"", RemoteUri}, localUri : {JsNull, LocalUri}]

\* What the contentUri field of a FileSystem.File can hold.
ContentUris ==
    {JsUndefined, "", "content://provider/files/sample.pdf",
     "content://media/external/file/42"}

\* Rejections of asset.downloadAsync / new FileSystem.File.
LoadErrors == {[message |-> "Unable to download asset", json |-> "{}"]}

\* Rejections of IntentLauncher.startActivityAsync.
IntentErrors ==
    {[message |-> "No Activity found to handle Intent",
      json |-> "{\n  \"code\": \"ERR_INTENT_LAUNCHER\"\n}"]}

\* What the environment decides while a load is suspended at
\* await asset.downloadAsync(): whether the download resolves, the localUri
\* it leaves on the asset, whether the File constructor throws, and the
\* exists and contentUri fields of the constructed File.
DownloadResults ==
    [download : {"resolved", "rejected"},
     error : LoadErrors,
     localUri : {JsNull, LocalUri},
     construct : {"ok", "throws"},
     exists : BOOLEAN,
     contentUri : ContentUris]

SampleSize == 13264

\* ------------------------------------------------------------------ state

VARIABLES
    platform,     \* Platform.OS
    fileObject,   \* useState: the current file handle, or Null
    fileInfo,     \* useState
    errorText,    \* useState
    isLoading,    \* useState
    asset,        \* the asset of the most recent loadFileFromAsset call
    loadPc,       \* position of the most recent loadFileFromAsset call
    alert,        \* the most recent Alert.alert(title, message)
    intentCalls   \* the calls of startActivityAsync, with their promise state

vars ==
    <<platform, fileObject, fileInfo, errorText, isLoading, asset, loadPc,
      alert, intentCalls>>

NoAlert == [title |-> "", message |-> ""]

NoAsset == [uri |-> "", localUri |-> JsNull]

Init ==
    /\ platform \in Platforms
    /\ fileObject = Null
    /\ fileInfo = ""
    /\ errorText = ""
    /\ isLoading = FALSE
    /\ asset = NoAsset
    /\ loadPc = "idle"
    /\ alert = NoAlert
    /\ intentCalls = <<>>

\* ------------------------------------------------------------- the screen

\* <Pressable onPress={loadFileFromAsset} disabled={isLoading}>
LoadDisabled == isLoading

\* <Pressable onPress={openFileWithIntent} disabled={!fileObject}>
OpenDisabled == fileObject = Null

\* --------------------------------------------------- loadFileFromAsset

\* setErrorText(`Error: ${error.message}\n\n${JSON.stringify(error, null, 2)}`)
LoadErrorText(e) == "Error: " \o e.message \o "\n\n" \o e.json

\* Alert.alert('Error', `Failed to load file: ${error.message}`)
LoadFailedAlert(e) ==
    [title |-> "Error", message |-> "Failed to load file: " \o e.message]

\* Alert.alert('File Loaded', ...)
FileLoadedAlert(file) ==
    [title |-> "File Loaded",
     message |-> "File object created from asset\nName: " \o file.name
                 \o "\nSize: " \o ToString(file.size)
                 \o " bytes\nType: " \o file.type]

\* FileUri preferring the remote URI: asset.uri || asset.localUri.
FileUri_PreferRemote(a) == IF a.uri \notin {JsNull, JsUndefined, ""} THEN a.uri ELSE a.localUri

\* const fileUri = asset.localUri || asset.uri
FileUri(a) == IF Truthy(a.localUri) THEN a.localUri ELSE a.uri

\* The asset after await asset.downloadAsync(): a resolved download may
\* have populated localUri; a populated localUri stays.
Downloaded(a, r) ==
    IF r.download = "resolved" /\ ~Truthy(a.localUri)
    THEN [a EXCEPT !.localUri = r.localUri]
    ELSE a

\* new FileSystem.File(fileUri)
NewFile(fileUri, r) ==
    [uri |-> fileUri,
     name |-> "sample.pdf",
     size |-> IF r.exists THEN SampleSize ELSE 0,
     type |-> "application/pdf",
     exists |-> r.exists,
     contentUri |-> r.contentUri]

\* LoadThrown without the if (!file.exists) check.
LoadThrown_NoExistsCheck(a, r) ==
    IF r.download = "rejected" THEN r.error
    ELSE IF ~Truthy(FileUri(a)) THEN Err("No valid URI from asset")
    ELSE IF r.construct = "throws" THEN r.error
    ELSE NoError

\* The error thrown inside the try block after the await, or NoError.
LoadThrown(a, r) ==
    IF r.download = "rejected" THEN r.error
    ELSE IF ~Truthy(FileUri(a)) THEN Err("No valid URI from asset")
    ELSE IF r.construct = "throws" THEN r.error
    ELSE IF ~NewFile(FileUri(a), r).exists THEN Err("File does not exist")
    ELSE NoError

\* PressLoad without setFileObject(null).
PressLoad_KeepsHandle(a) ==
    /\ ~LoadDisabled
    /\ errorText' = ""
    /\ fileInfo' = ""
    /\ isLoading' = TRUE
    /\ asset' = a
    /\ loadPc' = "download"
    /\ UNCHANGED <<platform, fileObject, alert, intentCalls>>

\* PressLoad without setIsLoading(true).
PressLoad_NoLoadingFlag(a) ==
    /\ ~LoadDisabled
    /\ errorText' = ""
    /\ fileInfo' = ""
    /\ fileObject' = Null
    /\ asset' = a
    /\ loadPc' = "download"
    /\ UNCHANGED <<platform, isLoading, alert, intentCalls>>

\* The press of "Load PDF from Assets": the handler up to
\* await asset.downloadAsync().
PressLoad(a) ==
    /\ ~LoadDisabled
    /\ errorText' = ""
    /\ fileInfo' = ""
    /\ fileObject' = Null
    /\ isLoading' = TRUE
    /\ asset' = a
    /\ loadPc' = "download"
    /\ UNCHANGED <<platform, alert, intentCalls>>

\* The press of "Load PDF from Assets" when Asset.fromModule throws: the
\* handler runs through catch and finally without suspending.
LoadFromModuleThrows(e) ==
    /\ ~LoadDisabled
    /\ errorText' = LoadErrorText(e)
    /\ fileInfo' = ""
    /\ fileObject' = Null
    /\ isLoading' = FALSE
    /\ alert' = LoadFailedAlert(e)
    /\ loadPc' = "failed"
    /\ UNCHANGED <<platform, asset, intentCalls>>

\* AssetDownloadSettles with setIsLoading(false) at the end of the try block
\* instead of in finally.
AssetDownloadSettles_NoFinally(r) ==
    /\ loadPc = "download"
    /\ LET a == Downloaded(asset, r)
           thrown == LoadThrown(a, r)
           file == NewFile(FileUri(a), r)
       IN  /\ asset' = a
           /\ IF thrown = NoError
              THEN /\ fileObject' = file
                   /\ alert' = FileLoadedAlert(file)
                   /\ loadPc' = "loaded"
                   /\ isLoading' = FALSE
                   /\ UNCHANGED errorText
              ELSE /\ errorText' = LoadErrorText(thrown)
                   /\ alert' = LoadFailedAlert(thrown)
                   /\ loadPc' = "failed"
                   /\ UNCHANGED <<fileObject, isLoading>>
    /\ UNCHANGED <<platform, fileInfo, intentCalls>>

\* The continuation of loadFileFromAsset once asset.downloadAsync() settles.
AssetDownloadSettles(r) ==
    /\ loadPc = "download"
    /\ LET a == Downloaded(asset, r)
           thrown == LoadThrown(a, r)
           file == NewFile(FileUri(a), r)
       IN  /\ asset' = a
           /\ IF thrown = NoError
              THEN /\ fileObject' = file
                   /\ alert' = FileLoadedAlert(file)
                   /\ loadPc' = "loaded"
                   /\ UNCHANGED errorText
              ELSE /\ errorText' = LoadErrorText(thrown)
                   /\ alert' = LoadFailedAlert(thrown)
                   /\ loadPc' = "failed"
                   /\ UNCHANGED fileObject
    /\ isLoading' = FALSE
    /\ UNCHANGED <<platform, fileInfo, intentCalls>>

\* --------------------------------------------------- openFileWithIntent

NoFileAlert == [title |-> "No File", message |-> "Please load the file first"]

AndroidOnlyText == "IntentLauncher is only available on Android"

AndroidOnlyAlert == [title |-> "Android Only", message |-> AndroidOnlyText]

ContentUriMissingText ==
    "contentUri is missing from the File object. This is the bug we are testing!"

ContentUriMissingAlert ==
    [title |-> "ContentURI Missing", message |-> ContentUriMissingText]

SuccessAlert == [title |-> "Success", message |-> "PDF opened with IntentLauncher"]

\* `Error opening file: ${error.message}\n\n${JSON.stringify(error, null, 2)}`
OpenErrorText(e) == "Error opening file: " \o e.message \o "\n\n" \o e.json

\* Alert.alert('Error', `Failed to open PDF: ${error.message}`)
OpenFailedAlert(e) ==
    [title |-> "Error", message |-> "Failed to open PDF: " \o e.message]

IntentFlags == 1

\* IntentCall passing the file's uri as data.
IntentCall_DataUri(file) ==
    [action |-> "android.intent.action.VIEW",
     data |-> file.uri,
     flags |-> IntentFlags,
     type |-> "application/pdf",
     status |-> "pending"]

\* IntentLauncher.startActivityAsync('android.intent.action.VIEW',
\*     { data: fileWithUri.contentUri, flags: 1, type: 'application/pdf' })
IntentCall(file) ==
    [action |-> "android.intent.action.VIEW",
     data |-> file.contentUri,
     flags |-> IntentFlags,
     type |-> "application/pdf",
     status |-> "pending"]

\* openFileWithIntent with the platform gate ahead of the !fileObject guard.
openFileWithIntent_PlatformFirst ==
    /\ IF platform # "android"
       THEN /\ errorText' = AndroidOnlyText
            /\ alert' = AndroidOnlyAlert
            /\ UNCHANGED intentCalls
       ELSE IF fileObject = Null
       THEN /\ alert' = NoFileAlert
            /\ UNCHANGED <<errorText, intentCalls>>
       ELSE IF ~Truthy(fileObject.contentUri)
       THEN /\ errorText' = ContentUriMissingText
            /\ alert' = ContentUriMissingAlert
            /\ UNCHANGED intentCalls
       ELSE /\ Len(intentCalls) < MaxCalls
            /\ errorText' = ""
            /\ intentCalls' = Append(intentCalls, IntentCall(fileObject))
            /\ UNCHANGED alert
    /\ UNCHANGED <<platform, fileObject, fileInfo, isLoading, asset, loadPc>>

\* openFileWithIntent without the platform gate.
openFileWithIntent_NoPlatformGate ==
    /\ IF fileObject = Null
       THEN /\ alert' = NoFileAlert
            /\ UNCHANGED <<errorText, intentCalls>>
       ELSE IF ~Truthy(fileObject.contentUri)
       THEN /\ errorText' = ContentUriMissingText
            /\ alert' = ContentUriMissingAlert
            /\ UNCHANGED intentCalls
       ELSE /\ Len(intentCalls) < MaxCalls
            /\ errorText' = ""
            /\ intentCalls' = Append(intentCalls, IntentCall(fileObject))
            /\ UNCHANGED alert
    /\ UNCHANGED <<platform, fileObject, fileInfo, isLoading, asset, loadPc>>

\* openFileWithIntent clearing the slot when contentUri is missing.
openFileWithIntent_ClearsHandle ==
    /\ IF fileObject = Null
       THEN /\ alert' = NoFileAlert
            /\ UNCHANGED <<errorText, intentCalls, fileObject>>
       ELSE IF platform # "android"
       THEN /\ errorText' = AndroidOnlyText
            /\ alert' = AndroidOnlyAlert
            /\ UNCHANGED <<intentCalls, fileObject>>
       ELSE IF ~Truthy(fileObject.contentUri)
       THEN /\ errorText' = ContentUriMissingText
            /\ alert' = ContentUriMissingAlert
            /\ fileObject' = Null
            /\ UNCHANGED intentCalls
       ELSE /\ Len(intentCalls) < MaxCalls
            /\ errorText' = ""
            /\ intentCalls' = Append(intentCalls, IntentCall(fileObject))
            /\ UNCHANGED <<alert, fileObject>>
    /\ UNCHANGED <<platform, fileInfo, isLoading, asset, loadPc>>

\* openFileWithIntent up to await IntentLauncher.startActivityAsync(...).
openFileWithIntent ==
    /\ IF fileObject = Null
       THEN /\ alert' = NoFileAlert
            /\ UNCHANGED <<errorText, intentCalls>>
       ELSE IF platform # "android"
       THEN /\ errorText' = AndroidOnlyText
            /\ alert' = AndroidOnlyAlert
            /\ UNCHANGED intentCalls
       ELSE IF ~Truthy(fileObject.contentUri)
       THEN /\ errorText' = ContentUriMissingText
            /\ alert' = ContentUriMissingAlert
            /\ UNCHANGED intentCalls
       ELSE /\ Len(intentCalls) < MaxCalls
            /\ errorText' = ""
            /\ intentCalls' = Append(intentCalls, IntentCall(fileObject))
            /\ UNCHANGED alert
    /\ UNCHANGED <<platform, fileObject, fileInfo, isLoading, asset, loadPc>>

\* The press of "Open PDF with IntentLauncher".
PressOpen ==
    /\ ~OpenDisabled
    /\ openFileWithIntent

\* openFileWithIntent called while its control is disabled (the handler's
\* own !fileObject guard).
CallOpenDisabled ==
    /\ OpenDisabled
    /\ openFileWithIntent

\* The continuation of openFileWithIntent once call i resolves.
StartActivityResolves(i) ==
    /\ intentCalls[i].status = "pending"
    /\ intentCalls' = [intentCalls EXCEPT ![i].status = "resolved"]
    /\ alert' = SuccessAlert
    /\ UNCHANGED <<platform, fileObject, fileInfo, errorText, isLoading,
                   asset, loadPc>>

\* The catch block of openFileWithIntent once call i rejects with e.
StartActivityRejects(i, e) ==
    /\ intentCalls[i].status = "pending"
    /\ intentCalls' = [intentCalls EXCEPT ![i].status = "rejected"]
    /\ errorText' = OpenErrorText(e)
    /\ alert' = OpenFailedAlert(e)
    /\ UNCHANGED <<platform, fileObject, fileInfo, isLoading, asset, loadPc>>

\* ---------------------------------------------------------- specification

Next ==
    \/ \E a \in InitialAssets : PressLoad(a)
    \/ \E e \in LoadErrors : LoadFromModuleThrows(e)
    \/ \E r \in DownloadResults : AssetDownloadSettles(r)
    \/ PressOpen
    \/ CallOpenDisabled
    \/ \E i \in DOMAIN intentCalls : StartActivityResolves(i)
    \/ \E i \in DOMAIN intentCalls, e \in IntentErrors : StartActivityRejects(i, e)

Spec == Init /\ [][Next]_vars

\* The continuation of the openFileWithIntent call awaiting call i.
StartActivitySettles(i) ==
    /\ i \in DOMAIN intentCalls
    /\ \/ StartActivityResolves(i)
       \/ \E e \in IntentErrors : StartActivityRejects(i, e)

\* Every awaited promise eventually settles and its continuation runs.
FairSpec ==
    /\ Init
    /\ [][Next]_vars
    /\ WF_vars(\E r \in DownloadResults : AssetDownloadSettles(r))
    /\ \A i \in 1..MaxCalls : WF_vars(StartActivitySettles(i))

\* ------------------------------------------------------------------ claims

\* Calls of startActivityAsync whose promise has not settled.
Pending == {i \in DOMAIN intentCalls : intentCalls[i].status = "pending"}

\* Operations suspended at an await.
InFlight == (IF loadPc = "download" THEN 1 ELSE 0) + Cardinality(Pending)

\* C1: openFileWithIntent called while fileObject is null shows the
\* 'No File' / 'Please load the file first' alert and changes nothing else:
\* no call of startActivityAsync is made, on every platform and after any
\* earlier loads and opens.
C1_LoadFirstNotice ==
    [][(openFileWithIntent /\ fileObject = Null)
         => /\ alert' = NoFileAlert
            /\ intentCalls' = intentCalls
            /\ errorText' = errorText
            /\ fileObject' = Null]_vars

C1_Witness ==
    /\ fileObject = Null
    /\ alert = NoFileAlert
    /\ Len(intentCalls) > 0

\* C2 as stated: openFileWithIntent called with a handle whose contentUri is
\* empty or absent sets errorText to the contentUri-missing message and makes
\* no call of startActivityAsync.
C2_Original ==
    [][(/\ openFileWithIntent
        /\ fileObject # Null
        /\ fileObject.contentUri \in {JsNull, JsUndefined, ""})
         => /\ errorText' = ContentUriMissingText
            /\ intentCalls' = intentCalls]_vars

\* C2 amended: openFileWithIntent called with a handle whose contentUri is
\* empty or absent makes no call of startActivityAsync on any platform, and
\* on Android sets errorText to the contentUri-missing message and shows the
\* 'ContentURI Missing' alert.
C2_MissingFieldOnAndroid ==
    [][(/\ openFileWithIntent
        /\ fileObject # Null
        /\ fileObject.contentUri \in {JsNull, JsUndefined, ""})
         => /\ intentCalls' = intentCalls
            /\ platform = "android"
                 => /\ errorText' = ContentUriMissingText
                    /\ alert' = ContentUriMissingAlert]_vars

C2_Witness ==
    /\ platform = "android"
    /\ fileObject # Null
    /\ fileObject.contentUri = ""
    /\ errorText = ContentUriMissingText
    /\ alert = ContentUriMissingAlert

\* C3 as stated: openFileWithIntent called on a platform other than Android
\* shows the 'Android Only' notice and makes no call of startActivityAsync,
\* whatever fileObject holds.
C3_Original ==
    [][(openFileWithIntent /\ platform # "android")
         => /\ alert' = AndroidOnlyAlert
            /\ intentCalls' = intentCalls]_vars

\* C3 amended: openFileWithIntent called on a platform other than Android
\* makes no call of startActivityAsync whatever fileObject holds, and when
\* fileObject holds a handle it sets errorText to and shows the 'Android
\* Only' notice.
C3_NotSupportedWithHandle ==
    [][(openFileWithIntent /\ platform # "android")
         => /\ intentCalls' = intentCalls
            /\ fileObject # Null
                 => /\ alert' = AndroidOnlyAlert
                    /\ errorText' = AndroidOnlyText]_vars

C3_Witness ==
    /\ platform # "android"
    /\ fileObject # Null
    /\ alert = AndroidOnlyAlert
    /\ errorText = AndroidOnlyText

\* C4: on Android with a handle whose contentUri is non-empty,
\* openFileWithIntent appends exactly one call of startActivityAsync with
\* action 'android.intent.action.VIEW', data equal to the contentUri, flags 1
\* and type 'application/pdf'; the 'Success' alert is shown exactly in the
\* steps where a pending call resolves, and a call that rejects sets
\* errorText to the open error and shows the 'Failed to open PDF' alert.
C4_IntentCallAndReport ==
    [][/\ (/\ openFileWithIntent
           /\ platform = "android"
           /\ fileObject # Null
           /\ fileObject.contentUri \notin {JsNull, JsUndefined, ""})
          => intentCalls' =
               intentCalls \o
                 << [action |-> "android.intent.action.VIEW",
                     data |-> fileObject.contentUri,
                     flags |-> 1,
                     type |-> "application/pdf",
                     status |-> "pending"] >>
       /\ \A i \in Pending :
            /\ (Len(intentCalls') = Len(intentCalls)
                  /\ intentCalls'[i].status = "resolved")
                 => /\ alert' = SuccessAlert
                    /\ errorText' = errorText
            /\ (Len(intentCalls') = Len(intentCalls)
                  /\ intentCalls'[i].status = "rejected")
                 => \E e \in IntentErrors :
                      /\ errorText' = OpenErrorText(e)
                      /\ alert' = OpenFailedAlert(e)
                      /\ errorText' # ""
       /\ (alert' = SuccessAlert /\ alert # SuccessAlert)
            => \E i \in Pending :
                 /\ Len(intentCalls') = Len(intentCalls)
                 /\ intentCalls'[i].status = "resolved"]_vars

C4_Witness ==
    /\ platform = "android"
    /\ Len(intentCalls) = 2
    /\ intentCalls[1].status = "rejected"
    /\ intentCalls[2].status = "resolved"
    /\ intentCalls[2].data = "content://provider/files/sample.pdf"
    /\ fileObject # Null
    /\ fileObject.contentUri = intentCalls[2].data
    /\ alert = SuccessAlert

\* C5: the open control is enabled only while fileObject holds a handle,
\* fileObject holds a handle only if the most recently started
\* loadFileFromAsset completed successfully, the control is disabled while a
\* load is suspended or has failed, and an openFileWithIntent call gets past
\* its !fileObject guard only after that successful load.
C5_OpenOnlyAfterLoad ==
    /\ [](/\ ~OpenDisabled => fileObject # Null
          /\ fileObject # Null => loadPc = "loaded"
          /\ loadPc \in {"idle", "download", "failed"} => OpenDisabled)
    /\ [][(openFileWithIntent
             /\ (errorText' # errorText \/ intentCalls' # intentCalls))
            => loadPc = "loaded" /\ fileObject # Null]_vars

C5_Witness ==
    /\ loadPc = "download"
    /\ OpenDisabled
    /\ Len(intentCalls) > 0

\* C6 as stated: at most one operation is suspended at an await, and neither
\* control is enabled while one is.
C6_Original ==
    /\ InFlight <= 1
    /\ InFlight = 1 => LoadDisabled /\ OpenDisabled

\* C6 amended: at most one loadFileFromAsset is suspended at a time (the
\* loading flag is true exactly while it is), both controls are disabled
\* while it is suspended, and no call of startActivityAsync is made during
\* it; an openFileWithIntent suspended at startActivityAsync disables
\* neither control.
C6_NoStartDuringLoad ==
    /\ [](/\ isLoading <=> loadPc = "download"
          /\ loadPc = "download" => LoadDisabled /\ OpenDisabled)
    /\ [][loadPc = "download" => Len(intentCalls') = Len(intentCalls)]_vars

C6_Witness ==
    /\ loadPc = "download"
    /\ Pending # {}
    /\ LoadDisabled
    /\ OpenDisabled

\* C7: a load that ends with no usable URI sets errorText to the 'No valid
\* URI from asset' error, one whose File does not exist to the 'File does
\* not exist' error, one whose download rejects (or whose Asset.fromModule
\* throws) to that rejection's error; each leaves errorText non-empty,
\* fileObject null and isLoading false.
C7_LoadFailureCaught ==
    [][/\ \A r \in DownloadResults :
            AssetDownloadSettles(r) =>
              LET usable == \/ asset'.localUri \notin {JsNull, JsUndefined, ""}
                            \/ asset'.uri \notin {JsNull, JsUndefined, ""}
                  failed(msg) ==
                    /\ errorText' = "Error: " \o msg \o "\n\n{}"
                    /\ errorText' # ""
                    /\ fileObject' = Null
                    /\ isLoading' = FALSE
                    /\ loadPc' = "failed"
              IN  /\ r.download = "rejected" => failed(r.error.message)
                  /\ (r.download = "resolved" /\ ~usable)
                       => failed("No valid URI from asset")
                  /\ (r.download = "resolved" /\ usable
                        /\ r.construct = "ok" /\ ~r.exists)
                       => failed("File does not exist")
       /\ \A e \in LoadErrors :
            LoadFromModuleThrows(e) =>
              /\ errorText' = "Error: " \o e.message \o "\n\n{}"
              /\ fileObject' = Null
              /\ isLoading' = FALSE]_vars

C7_Witness ==
    /\ loadPc = "failed"
    /\ errorText = "Error: File does not exist\n\n{}"
    /\ fileObject = Null
    /\ ~isLoading
    /\ Len(intentCalls) > 0

\* C8: when every awaited promise eventually settles, every started load
\* eventually ends with isLoading false, and the load control is enabled
\* again and again.
C8_LoadRetriggerable ==
    /\ (loadPc = "download") ~> (loadPc # "download" /\ ~isLoading)
    /\ isLoading ~> ~isLoading
    /\ []<>(~LoadDisabled)

C8_Witness ==
    /\ loadPc = "failed"
    /\ ~LoadDisabled
    /\ \E i \in DOMAIN intentCalls : intentCalls[i].status = "rejected"

\* C9 as stated: once fileObject holds a handle no later step changes it.
C9_Original == [][fileObject # Null => fileObject' = fileObject]_vars

\* C9 amended: fileObject is written only by loadFileFromAsset, which sets
\* it to null when it starts and to the new handle when it succeeds; a
\* stored handle changes only by being cleared at the start of the next
\* load, and no step of openFileWithIntent writes it.
C9_SlotWrittenOnlyByLoad ==
    [][/\ fileObject' # fileObject
            => \/ \E a \in InitialAssets : PressLoad(a)
               \/ \E e \in LoadErrors : LoadFromModuleThrows(e)
               \/ \E r \in DownloadResults : AssetDownloadSettles(r)
       /\ (fileObject # Null /\ fileObject' # fileObject)
            => /\ fileObject' = Null
               /\ loadPc = "loaded"
               /\ loadPc' \in {"download", "failed"}
       /\ (\/ openFileWithIntent
           \/ \E i \in DOMAIN intentCalls : StartActivitySettles(i))
            => fileObject' = fileObject]_vars

C9_Witness ==
    /\ fileObject # Null
    /\ \E i \in DOMAIN intentCalls :
         /\ intentCalls[i].data # fileObject.contentUri
         /\ Truthy(fileObject.contentUri)

\* C10: a stored handle has exists = true and was constructed from a
\* non-empty URI: the asset's localUri when present, otherwise its uri.
C10_StoredHandleExists ==
    fileObject # Null
      => /\ fileObject.exists = TRUE
         /\ fileObject.uri \notin {JsNull, JsUndefined, ""}
         /\ fileObject.uri =
              (IF asset.localUri \notin {JsNull, JsUndefined, ""}
               THEN asset.localUri ELSE asset.uri)

C10_Witness ==
    /\ fileObject # Null
    /\ fileObject.exists
    /\ asset.localUri = JsNull
    /\ fileObject.uri = RemoteUri

====
